---- MODULE Spec2Model ----
(***************************************************************************)
(* Model of vtt.py: the video -> audio -> Gemini -> text-file pipeline     *)
(* (transcribe_video_with_gemini and its helpers) and the ProgressSpinner  *)
(* background thread.                                                      *)
(*                                                                         *)
(* Strings that the code takes apart (paths) are sequences of one-character*)
(* strings; messages written to stdout are tags, one per print/write call. *)
(* The main thread and each spinner thread have a position (pc, threads).  *)
(***************************************************************************)
EXTENDS Integers, Sequences, FiniteSets

VARIABLES
    pc,                 \* position of the main thread
    stop_ret,           \* where ProgressSpinner.stop() returns to
    run,                \* number of the current process run
    prev,               \* input and transcript of the previous run, if it succeeded
    api_key_env,        \* os.getenv(API_KEY_ENV_VAR)
    video_file_path,    \* argument of transcribe_video_with_gemini
    video_kind,         \* what the file at video_file_path is
    tempAudio,          \* state of TEMP_AUDIO_FILENAME on disk
    outDir,             \* state of OUTPUT_DIR on disk
    files,              \* files under OUTPUT_DIR: path -> content
    fs0,                \* the filesystem as it was when the run began
    spinning,           \* ProgressSpinner.spinning
    spinner_thread,     \* ProgressSpinner.spinner_thread (0 is None)
    threads,            \* position of every thread started so far
    current_index,      \* ProgressSpinner.current_index
    transcription_text, \* local of transcribe_video_with_gemini
    stdout,             \* what was written to sys.stdout, in order
    calls,              \* operations invoked so far, in order
    outcome,            \* the first stage of the run that failed, or success
    exc,                \* the exception in flight in the main thread
    fds,                \* the process's file descriptors: number -> target
    sup,                \* the frame of a running suppress_stderr()
    ext,                \* the frame of a running _extract_audio_from_video()
    names               \* arguments and results of _generate_output_filename()

vars == <<pc, stop_ret, run, prev, api_key_env, video_file_path, video_kind,
          tempAudio, outDir, files, fs0, spinning, spinner_thread, threads,
          current_index, transcription_text, stdout, calls, outcome,
          exc, fds, sup, ext, names>>

pipeVars == <<run, prev, api_key_env, video_file_path, video_kind, tempAudio,
              outDir, files, fs0, transcription_text, outcome,
              exc, fds, sup, ext, names>>

(***************************************************************************)
(* Bounds                                                                  *)
(***************************************************************************)
MaxRuns == 2
MaxFrames == 2
MaxOps == 3
MaxThreads == 2
MaxBaseLen == 3
MaxDirLen == 2
MaxUses == 3
MaxExtractCalls == 2

(***************************************************************************)
(* Program constants                                                       *)
(***************************************************************************)
OUTPUT_DIR == <<"o", "u", "t", "p", "u", "t">>

TRANSCRIPTION_FILE_SUFFIX ==
    <<"_", "g", "e", "m", "i", "n", "i", "_", "t", "r", "a", "n", "s", "c",
      "r", "i", "p", "t", "i", "o", "n", ".", "t", "x", "t">>

NumSpinnerChars == 10

(***************************************************************************)
(* Inputs                                                                  *)
(*                                                                         *)
(* The environment decides: the value of the credential variable, what the *)
(* video file is, whether genai.configure, write_audiofile, the service    *)
(* call, os.makedirs, open(..., "w") and write raise, and what is on disk  *)
(* when a run begins (an audio file left by an aborted run, earlier        *)
(* transcripts).  Removing an existing file, starting a thread and writing *)
(* to stdout are taken to succeed; OUTPUT_DIR is absent or a directory.    *)
(***************************************************************************)
None == "<None>"
NoText == "<unset>"
Raise == "<raise>"
NoPrev == [path |-> <<>>, outcome |-> "none", text |-> NoText]

ApiKeys == {None, "", "key"}

VideoPaths == { <<"v", "/", "a", ".", "m">>,
                <<"a", ".", "m">>,
                <<"b", ".", "t", ".", "m">> }

VideoKinds == {"ok", "unreadable", "noaudio"}

EncodeOutcomes == {"ok", "fail_early", "fail_partial"}

Responses == {"", "t1", "t2"}

(***************************************************************************)
(* Sequence helpers                                                        *)
(***************************************************************************)
Last(s) == s[Len(s)]

Count(s, x) == Cardinality({i \in DOMAIN s : s[i] = x})

FrameCount(s) == Count(s, "frame")

Before(s, x, y) ==
    \A j \in DOMAIN s : s[j] = y => \E i \in 1..(j - 1) : s[i] = x

RFind(s, c) ==
    LET I == {i \in DOMAIN s : s[i] = c}
    IN  IF I = {} THEN 0 ELSE CHOOSE i \in I : \A j \in I : j <= i

(***************************************************************************)
(* os.path                                                                 *)
(***************************************************************************)
Basename(p) == SubSeq(p, RFind(p, "/") + 1, Len(p))

SplitextRoot(p) ==
    LET sepIndex == RFind(p, "/")
        dotIndex == RFind(p, ".")
    IN  IF /\ dotIndex > sepIndex
           /\ \E k \in (sepIndex + 1)..(dotIndex - 1) : p[k] # "."
        THEN SubSeq(p, 1, dotIndex - 1)
        ELSE p

PathJoin(a, b) ==
    IF b # <<>> /\ b[1] = "/" THEN b
    ELSE IF a = <<>> \/ Last(a) = "/" THEN a \o b
    ELSE a \o <<"/">> \o b

GenerateOutputFilename_NoBasename(path) ==
    PathJoin(OUTPUT_DIR, SplitextRoot(path) \o TRANSCRIPTION_FILE_SUFFIX)

GenerateOutputFilename_KeepExt(path) ==
    PathJoin(OUTPUT_DIR, Basename(path) \o TRANSCRIPTION_FILE_SUFFIX)

GenerateOutputFilename(path) ==
    PathJoin(OUTPUT_DIR, SplitextRoot(Basename(path)) \o TRANSCRIPTION_FILE_SUFFIX)

(***************************************************************************)
(* Filesystem                                                              *)
(***************************************************************************)
Exists(temp) == temp # "absent"

FS == [temp |-> tempAudio, dir |-> outDir, files |-> files]

WriteFile(fls, path, content) ==
    [p \in (DOMAIN fls) \cup {path} |-> IF p = path THEN content ELSE fls[p]]

OutPaths == {GenerateOutputFilename(p) : p \in VideoPaths}

InitialFiles(dir) ==
    IF dir = "absent" THEN {<<>>}
    ELSE UNION {[D -> {"old"}] : D \in SUBSET OutPaths}

(***************************************************************************)
(* File descriptors and suppress_stderr                                    *)
(***************************************************************************)
MaxFd == 7

STDERR_FILENO == 2

FdNumbers == 0..MaxFd

LowestFree(f) ==
    CHOOSE i \in DOMAIN f :
        /\ f[i] = "closed"
        /\ \A j \in DOMAIN f : f[j] = "closed" => i <= j

OsDup(f, fd) == [f EXCEPT ![LowestFree(f)] = f[fd]]

OsOpenDevnull(f) == [f EXCEPT ![LowestFree(f)] = "devnull"]

OsDup2(f, src, dst) == [f EXCEPT ![dst] = f[src]]

OsClose(f, fd) == [f EXCEPT ![fd] = "closed"]

SuppressAfterBlock_NoFinally(out) == IF out = "raise" THEN "idle" ELSE "restore"

SuppressAfterBlock(out) == "restore"

WithSuppressedStderr(f) ==
    LET saved == LowestFree(f)
        f1 == OsDup(f, STDERR_FILENO)
        devnull == LowestFree(f1)
        f2 == OsOpenDevnull(f1)
        f3 == OsDup2(f2, devnull, STDERR_FILENO)
        f4 == OsDup2(f3, saved, STDERR_FILENO)
        f5 == OsClose(f4, saved)
    IN  OsClose(f5, devnull)

StandardFds ==
    [i \in FdNumbers |-> CASE i = 0 -> "stdin"
                           [] i = 1 -> "stdout"
                           [] i = 2 -> "tty"
                           [] OTHER -> "closed"]

NoSup == [pc |-> "off", saved |-> 0, devnull |-> 0, pending |-> "none",
          uses |-> 0, orig |-> StandardFds]

NoExt == [pc |-> "off", handle |-> "none", result |-> "none", calls |-> 0]

NoNames == [base |-> <<>>, paths |-> <<>>, out |-> <<>>]

(***************************************************************************)
(* Pieces of the code that the actions below put together                  *)
(***************************************************************************)
KeyMissing_NoneOnly(k) == k = None

KeyMissing(k) == k = None \/ k = ""

WriteAudiofile(temp, enc) ==
    CASE enc = "ok" -> "full"
      [] enc = "fail_partial" -> "partial"
      [] OTHER -> temp

ExtractFailureCleanup_Keep(temp) == temp

ExtractFailureCleanup(temp) == IF Exists(temp) THEN "absent" ELSE temp

CleanupTemporaryAudioFile_Keep(temp) == temp

CleanupTemporaryAudioFile(temp) == IF Exists(temp) THEN "absent" ELSE temp

AfterServiceCall_Swallow(r) == "save_dir"

AfterServiceCall_Retry(r) == IF r = Raise THEN "t_call" ELSE "save_dir"

AfterServiceCall(r) == IF r = Raise THEN "except" ELSE "save_dir"

DirMissing_Always(dir) == TRUE

DirMissing_Never(dir) == FALSE

DirMissing(dir) == dir = "absent"

MakedirsOutcomes(dir) == IF dir = "absent" THEN BOOLEAN ELSE {FALSE}

ExceptionKinds == {"OSError", "APIError"}

ExceptCatches_OSErrorOnly(e) == e = "OSError"

ExceptCatches(e) == e \in ExceptionKinds

FinallyEntry_SkipStop == "cleanup"

FinallyEntry == "finally"

LoopContinues_Forever(spin) == TRUE

LoopContinues(spin) == spin

HasThread_Always(t) == TRUE

HasThread(t) == t # 0

JoinReturns_NoWait(thr, t) == TRUE

JoinReturns(thr, t) == t \in DOMAIN thr /\ thr[t] = "dead"

Alive(thr) == \E i \in DOMAIN thr : thr[i] # "dead"

FirstOutcome(o) == IF outcome = "none" THEN o ELSE outcome

(***************************************************************************)
(* Initial states                                                          *)
(***************************************************************************)
SpinnerConstructed ==
    /\ spinning = FALSE
    /\ spinner_thread = 0
    /\ current_index = 0

Init ==
    /\ pc = "start"
    /\ stop_ret = "cleanup"
    /\ run = 1
    /\ prev = NoPrev
    /\ api_key_env \in ApiKeys
    /\ video_file_path \in VideoPaths
    /\ video_kind \in VideoKinds
    /\ tempAudio \in {"absent", "stale"}
    /\ outDir \in {"absent", "dir"}
    /\ files \in InitialFiles(outDir)
    /\ fs0 = FS
    /\ SpinnerConstructed
    /\ threads = <<>>
    /\ transcription_text = NoText
    /\ stdout = <<>>
    /\ calls = <<>>
    /\ outcome = "none"
    /\ exc = "none"
    /\ fds = StandardFds
    /\ sup = NoSup
    /\ ext = NoExt
    /\ names = NoNames

(***************************************************************************)
(* transcribe_video_with_gemini                                            *)
(***************************************************************************)
GetApiKey ==
    /\ pc = "start"
    /\ IF KeyMissing(api_key_env)
       THEN /\ stdout' = stdout \o <<"err_key_not_set", "hint_export">>
            /\ pc' = "returned"
            /\ outcome' = FirstOutcome("cred_fail")
            /\ calls' = calls
            /\ fds' = fds
       ELSE \E ok \in BOOLEAN :
            /\ calls' = Append(calls, "configure")
            /\ fds' = WithSuppressedStderr(fds)
            /\ IF ok
               THEN /\ pc' = "extract"
                    /\ UNCHANGED <<stdout, outcome>>
               ELSE /\ stdout' = Append(stdout, "err_configuring")
                    /\ pc' = "returned"
                    /\ outcome' = FirstOutcome("cred_fail")
    /\ UNCHANGED <<sup, ext, names, stop_ret, run, prev, api_key_env,
                   video_file_path, video_kind,
                   tempAudio, outDir, files, fs0, spinning, spinner_thread,
                   threads, current_index, transcription_text, exc>>

ExtractAudio ==
    /\ pc = "extract"
    /\ \E enc \in EncodeOutcomes :
       LET decodable == video_kind = "ok"
           written == IF decodable THEN WriteAudiofile(tempAudio, enc)
                      ELSE tempAudio
           ok == decodable /\ enc = "ok"
       IN  IF ok
           THEN /\ tempAudio' = written
                /\ stdout' = stdout \o <<"loading", "extracting", "extracted">>
                /\ pc' = "spin_new"
                /\ outcome' = outcome
           ELSE /\ tempAudio' = ExtractFailureCleanup(written)
                /\ stdout' = stdout \o <<"loading", "extracting", "err_extraction">>
                             \o (IF tempAudio' # written
                                 THEN <<"cleaned_up">> ELSE <<>>)
                /\ pc' = "returned"
                /\ outcome' = FirstOutcome("extract_fail")
    /\ UNCHANGED <<sup, ext, names, stop_ret, run, prev, api_key_env,
                   video_file_path, video_kind,
                   outDir, files, fs0, spinning, spinner_thread, threads,
                   current_index, transcription_text, calls, exc, fds>>

StartEffect ==
    /\ spinning' = TRUE
    /\ threads' = Append(threads, "check")
    /\ spinner_thread' = Len(threads) + 1
    /\ calls' = Append(calls, "start")

SpinnerNewAndStart ==
    /\ pc = "spin_new"
    /\ current_index' = 0
    /\ StartEffect
    /\ pc' = "t_read"
    /\ UNCHANGED <<stop_ret, stdout>>
    /\ UNCHANGED pipeVars

TranscribeRead ==
    /\ pc = "t_read"
    /\ IF Exists(tempAudio)
       THEN /\ stdout' = Append(stdout, "sending")
            /\ pc' = "t_call"
            /\ outcome' = outcome
            /\ exc' = exc
       ELSE /\ stdout' = stdout
            /\ pc' = "except"
            /\ outcome' = FirstOutcome("transcribe_fail")
            /\ exc' = "OSError"
    /\ UNCHANGED <<sup, ext, names, stop_ret, run, prev, api_key_env,
                   video_file_path, video_kind,
                   tempAudio, outDir, files, fs0, spinning, spinner_thread,
                   threads, current_index, transcription_text, calls, fds>>

TranscribeCall ==
    /\ pc = "t_call"
    /\ \E r \in Responses \cup {Raise} :
       /\ calls' = Append(calls, "request")
       /\ fds' = WithSuppressedStderr(fds)
       /\ pc' = AfterServiceCall(r)
       /\ IF r = Raise
          THEN /\ outcome' = FirstOutcome("transcribe_fail")
               /\ exc' = "APIError"
               /\ UNCHANGED <<stdout, transcription_text>>
          ELSE /\ transcription_text' = r
               /\ stdout' = Append(stdout, "received")
               /\ outcome' = outcome
               /\ exc' = exc
    /\ UNCHANGED <<sup, ext, names, stop_ret, run, prev, api_key_env,
                   video_file_path, video_kind,
                   tempAudio, outDir, files, fs0, spinning, spinner_thread,
                   threads, current_index>>

SaveMakeDir ==
    /\ pc = "save_dir"
    /\ IF DirMissing(outDir)
       THEN \E ok \in MakedirsOutcomes(outDir) :
            /\ calls' = Append(calls, "makedirs")
            /\ IF ok
               THEN /\ outDir' = "dir"
                    /\ stdout' = Append(stdout, "saving")
                    /\ pc' = "save_open"
                    /\ outcome' = outcome
                    /\ exc' = exc
               ELSE /\ pc' = "except"
                    /\ outcome' = FirstOutcome("persist_fail")
                    /\ exc' = "OSError"
                    /\ UNCHANGED <<outDir, stdout>>
       ELSE /\ stdout' = Append(stdout, "saving")
            /\ pc' = "save_open"
            /\ UNCHANGED <<outDir, calls, outcome, exc>>
    /\ UNCHANGED <<sup, ext, names, stop_ret, run, prev, api_key_env,
                   video_file_path, video_kind,
                   tempAudio, files, fs0, spinning, spinner_thread, threads,
                   current_index, transcription_text, fds>>

SaveOpen ==
    /\ pc = "save_open"
    /\ calls' = Append(calls, "open_out")
    /\ \E ok \in BOOLEAN :
       IF ok /\ outDir = "dir"
       THEN /\ files' = WriteFile(files, GenerateOutputFilename(video_file_path), "")
            /\ pc' = "save_write"
            /\ outcome' = outcome
            /\ exc' = exc
       ELSE /\ pc' = "except"
            /\ outcome' = FirstOutcome("persist_fail")
            /\ exc' = "OSError"
            /\ files' = files
    /\ UNCHANGED <<sup, ext, names, stop_ret, run, prev, api_key_env,
                   video_file_path, video_kind,
                   tempAudio, outDir, fs0, spinning, spinner_thread, threads,
                   current_index, transcription_text, stdout, fds>>

SaveWrite ==
    /\ pc = "save_write"
    /\ \E ok \in BOOLEAN :
       IF ok
       THEN /\ files' = WriteFile(files, GenerateOutputFilename(video_file_path),
                                  transcription_text)
            /\ stdout' = Append(stdout, "saved")
            /\ pc' = FinallyEntry
            /\ outcome' = FirstOutcome("success")
            /\ exc' = exc
       ELSE /\ pc' = "except"
            /\ outcome' = FirstOutcome("persist_fail")
            /\ exc' = "OSError"
            /\ UNCHANGED <<files, stdout>>
    /\ UNCHANGED <<sup, ext, names, stop_ret, run, prev, api_key_env,
                   video_file_path, video_kind,
                   tempAudio, outDir, fs0, spinning, spinner_thread, threads,
                   current_index, transcription_text, calls, fds>>

Except ==
    /\ pc = "except"
    /\ IF ExceptCatches(exc)
       THEN /\ stdout' = Append(stdout, "err_transcription")
            /\ exc' = "none"
       ELSE UNCHANGED <<stdout, exc>>
    /\ pc' = FinallyEntry
    /\ UNCHANGED <<stop_ret, spinning, spinner_thread, threads, current_index,
                   calls, run, prev, api_key_env, video_file_path, video_kind,
                   tempAudio, outDir, files, fs0, transcription_text, outcome,
                   fds, sup, ext, names>>

Finally ==
    /\ pc = "finally"
    /\ pc' = "stop_flag"
    /\ stop_ret' = "cleanup"
    /\ calls' = Append(calls, "stop")
    /\ UNCHANGED <<spinning, spinner_thread, threads, current_index, stdout>>
    /\ UNCHANGED pipeVars

Cleanup ==
    /\ pc = "cleanup"
    /\ calls' = Append(calls, "cleanup")
    /\ tempAudio' = CleanupTemporaryAudioFile(tempAudio)
    /\ stdout' = IF tempAudio' # tempAudio THEN Append(stdout, "deleted")
                 ELSE stdout
    /\ pc' = IF exc = "none" THEN "returned" ELSE "propagated"
    /\ UNCHANGED <<sup, ext, names, stop_ret, run, prev, api_key_env,
                   video_file_path, video_kind,
                   outDir, files, fs0, spinning, spinner_thread, threads,
                   current_index, transcription_text, outcome, exc, fds>>

NewRun ==
    /\ pc \in {"returned", "propagated"}
    /\ run < MaxRuns
    /\ run' = run + 1
    /\ prev' = IF outcome = "success"
                THEN [path |-> video_file_path, outcome |-> outcome,
                      text |-> transcription_text]
                ELSE NoPrev
    /\ pc' = "start"
    /\ api_key_env' \in ApiKeys
    /\ video_file_path' \in VideoPaths
    /\ video_kind' \in VideoKinds
    /\ fs0' = FS
    /\ spinning' = FALSE
    /\ spinner_thread' = 0
    /\ current_index' = 0
    /\ threads' = <<>>
    /\ transcription_text' = NoText
    /\ stdout' = <<>>
    /\ calls' = <<>>
    /\ outcome' = "none"
    /\ exc' = "none"
    /\ UNCHANGED <<stop_ret, tempAudio, outDir, files, fds, sup, ext, names>>

(***************************************************************************)
(* ProgressSpinner.stop                                                    *)
(***************************************************************************)
StopFlag ==
    /\ pc = "stop_flag"
    /\ spinning' = FALSE
    /\ pc' = "stop_join"
    /\ UNCHANGED <<stop_ret, spinner_thread, threads, current_index, stdout,
                   calls>>
    /\ UNCHANGED pipeVars

StopJoin ==
    /\ pc = "stop_join"
    /\ IF HasThread(spinner_thread)
       THEN /\ JoinReturns(threads, spinner_thread)
            /\ calls' = Append(calls, "join")
       ELSE calls' = calls
    /\ pc' = "stop_clear"
    /\ UNCHANGED <<stop_ret, spinning, spinner_thread, threads, current_index,
                   stdout>>
    /\ UNCHANGED pipeVars

StopClear ==
    /\ pc = "stop_clear"
    /\ stdout' = Append(stdout, "clear")
    /\ calls' = Append(calls, "stop_ret")
    /\ pc' = stop_ret
    /\ UNCHANGED <<stop_ret, spinning, spinner_thread, threads, current_index>>
    /\ UNCHANGED pipeVars

(***************************************************************************)
(* ProgressSpinner._spin, run by each started thread                       *)
(***************************************************************************)
SpinCheckAt(i) ==
    /\ i \in DOMAIN threads
    /\ threads[i] = "check"
    /\ IF LoopContinues(spinning)
       THEN /\ FrameCount(stdout) < MaxFrames
            /\ threads' = [threads EXCEPT ![i] = "write"]
       ELSE threads' = [threads EXCEPT ![i] = "dead"]
    /\ UNCHANGED <<pc, stop_ret, spinning, spinner_thread, current_index,
                   stdout, calls>>
    /\ UNCHANGED pipeVars

SpinWriteAt(i) ==
    /\ i \in DOMAIN threads
    /\ threads[i] = "write"
    /\ stdout' = Append(stdout, "frame")
    /\ current_index' = (current_index + 1) % NumSpinnerChars
    /\ threads' = [threads EXCEPT ![i] = "sleep"]
    /\ UNCHANGED <<pc, stop_ret, spinning, spinner_thread, calls>>
    /\ UNCHANGED pipeVars

SpinSleepAt(i) ==
    /\ i \in DOMAIN threads
    /\ threads[i] = "sleep"
    /\ threads' = [threads EXCEPT ![i] = "check"]
    /\ UNCHANGED <<pc, stop_ret, spinning, spinner_thread, current_index,
                   stdout, calls>>
    /\ UNCHANGED pipeVars

SpinCheck == \E i \in DOMAIN threads : SpinCheckAt(i)

SpinWrite == \E i \in DOMAIN threads : SpinWriteAt(i)

SpinSleep == \E i \in DOMAIN threads : SpinSleepAt(i)

Next ==
    \/ GetApiKey
    \/ ExtractAudio
    \/ SpinnerNewAndStart
    \/ TranscribeRead
    \/ TranscribeCall
    \/ SaveMakeDir
    \/ SaveOpen
    \/ SaveWrite
    \/ Except
    \/ Finally
    \/ StopFlag
    \/ StopJoin
    \/ StopClear
    \/ Cleanup
    \/ NewRun
    \/ SpinCheck
    \/ SpinWrite
    \/ SpinSleep

Spec == Init /\ [][Next]_vars

(***************************************************************************)
(* A client that calls start() and stop() on one ProgressSpinner instance  *)
(* in any order.                                                           *)
(***************************************************************************)
OpCount(c) == Count(c, "start") + Count(c, "stop")

InitSpinner ==
    /\ pc = "h_idle"
    /\ stop_ret = "h_idle"
    /\ run = 1
    /\ prev = NoPrev
    /\ api_key_env = "key"
    /\ video_file_path = <<"a", ".", "m">>
    /\ video_kind = "ok"
    /\ tempAudio = "absent"
    /\ outDir = "absent"
    /\ files = <<>>
    /\ fs0 = FS
    /\ SpinnerConstructed
    /\ threads = <<>>
    /\ transcription_text = NoText
    /\ stdout = <<>>
    /\ calls = <<>>
    /\ outcome = "none"
    /\ exc = "none"
    /\ fds = StandardFds
    /\ sup = NoSup
    /\ ext = NoExt
    /\ names = NoNames

ClientStart ==
    /\ pc = "h_idle"
    /\ OpCount(calls) < MaxOps
    /\ Len(threads) < MaxThreads
    /\ StartEffect
    /\ UNCHANGED <<pc, stop_ret, current_index, stdout>>
    /\ UNCHANGED pipeVars

ClientStop ==
    /\ pc = "h_idle"
    /\ OpCount(calls) < MaxOps
    /\ pc' = "stop_flag"
    /\ stop_ret' = "h_idle"
    /\ calls' = Append(calls, "stop")
    /\ UNCHANGED <<spinning, spinner_thread, threads, current_index, stdout>>
    /\ UNCHANGED pipeVars

NextSpinner ==
    \/ ClientStart
    \/ ClientStop
    \/ StopFlag
    \/ StopJoin
    \/ StopClear
    \/ SpinCheck
    \/ SpinWrite
    \/ SpinSleep

SpecSpinner == InitSpinner /\ [][NextSpinner]_vars

\* The caller keeps running while it is inside stop(), and every started
\* thread is scheduled again and again.
SpinnerFairness ==
    /\ WF_vars(StopFlag)
    /\ WF_vars(StopJoin)
    /\ WF_vars(StopClear)
    /\ \A i \in 1..MaxThreads :
          /\ WF_vars(SpinCheckAt(i))
          /\ WF_vars(SpinWriteAt(i))
          /\ WF_vars(SpinSleepAt(i))

SpecSpinnerFair == SpecSpinner /\ SpinnerFairness

(***************************************************************************)
(* The state of everything a harness below does not use.                   *)
(***************************************************************************)
Unused ==
    /\ stop_ret = "cleanup"
    /\ run = 1
    /\ prev = NoPrev
    /\ api_key_env = "key"
    /\ outDir = "absent"
    /\ files = <<>>
    /\ SpinnerConstructed
    /\ threads = <<>>
    /\ transcription_text = NoText
    /\ calls = <<>>
    /\ outcome = "none"
    /\ exc = "none"

(***************************************************************************)
(* _generate_output_filename applied to two paths with the same basename   *)
(***************************************************************************)
SeqsUpTo(S, n) == UNION {[1..k -> S] : k \in 0..n}

BaseNames == SeqsUpTo({"a", "."}, MaxBaseLen)

DirPrefixes ==
    {<<>>} \cup {d \o <<"/">> : d \in SeqsUpTo({"v", ".", "/"}, MaxDirLen)}

InitNames ==
    /\ pc = "n_call"
    /\ names \in {[base |-> b, paths |-> <<d1 \o b, d2 \o b>>, out |-> <<>>] :
                      b \in BaseNames, d1 \in DirPrefixes, d2 \in DirPrefixes}
    /\ video_file_path = names.paths[1]
    /\ video_kind = "ok"
    /\ tempAudio = "absent"
    /\ Unused
    /\ fs0 = FS
    /\ stdout = <<>>
    /\ fds = StandardFds
    /\ sup = NoSup
    /\ ext = NoExt

GenerateNames ==
    /\ pc = "n_call"
    /\ names' = [names EXCEPT !.out = <<GenerateOutputFilename(names.paths[1]),
                                        GenerateOutputFilename(names.paths[2])>>]
    /\ pc' = "n_done"
    /\ UNCHANGED <<stop_ret, run, prev, api_key_env, video_file_path, video_kind,
                   tempAudio, outDir, files, fs0, spinning, spinner_thread,
                   threads, current_index, transcription_text, stdout, calls,
                   outcome, exc, fds, sup, ext>>

NextNames == GenerateNames

SpecNames == InitNames /\ [][NextNames]_vars

(***************************************************************************)
(* A client that uses suppress_stderr() repeatedly around blocks that      *)
(* return or raise, in a process with any set of descriptors already open. *)
(***************************************************************************)
InitialFds ==
    {[i \in FdNumbers |-> CASE i = 0 -> "stdin"
                            [] i = 1 -> "stdout"
                            [] i = STDERR_FILENO -> target
                            [] i \in extra -> "other"
                            [] OTHER -> "closed"] :
        target \in {"tty", "log"}, extra \in SUBSET (3..(MaxFd - 2))}

supUnchanged ==
    <<pc, stop_ret, run, prev, api_key_env, video_file_path, video_kind,
      tempAudio, outDir, files, fs0, spinning, spinner_thread, threads,
      current_index, transcription_text, stdout, calls, outcome, exc, ext,
      names>>

InitStderr ==
    /\ pc = "s_client"
    /\ fds \in InitialFds
    /\ sup = [pc |-> "idle", saved |-> 0, devnull |-> 0, pending |-> "none",
              uses |-> 0, orig |-> fds]
    /\ video_file_path = <<"a", ".", "m">>
    /\ video_kind = "ok"
    /\ tempAudio = "absent"
    /\ Unused
    /\ fs0 = FS
    /\ stdout = <<>>
    /\ ext = NoExt
    /\ names = NoNames

SupDup ==
    /\ sup.pc = "idle"
    /\ sup.uses < MaxUses
    /\ fds' = OsDup(fds, STDERR_FILENO)
    /\ sup' = [sup EXCEPT !.pc = "open", !.saved = LowestFree(fds),
                          !.pending = "none"]
    /\ UNCHANGED supUnchanged

SupOpen ==
    /\ sup.pc = "open"
    /\ fds' = OsOpenDevnull(fds)
    /\ sup' = [sup EXCEPT !.pc = "redirect", !.devnull = LowestFree(fds)]
    /\ UNCHANGED supUnchanged

SupRedirect ==
    /\ sup.pc = "redirect"
    /\ fds' = OsDup2(fds, sup.devnull, STDERR_FILENO)
    /\ sup' = [sup EXCEPT !.pc = "block"]
    /\ UNCHANGED supUnchanged

SupBlockEnds ==
    /\ sup.pc = "block"
    /\ \E out \in {"return", "raise"} :
          sup' = [sup EXCEPT !.pc = SuppressAfterBlock(out), !.pending = out,
                             !.uses = @ + 1]
    /\ UNCHANGED fds
    /\ UNCHANGED supUnchanged

SupRestore ==
    /\ sup.pc = "restore"
    /\ fds' = OsDup2(fds, sup.saved, STDERR_FILENO)
    /\ sup' = [sup EXCEPT !.pc = "close_saved"]
    /\ UNCHANGED supUnchanged

SupCloseSaved ==
    /\ sup.pc = "close_saved"
    /\ fds' = OsClose(fds, sup.saved)
    /\ sup' = [sup EXCEPT !.pc = "close_devnull"]
    /\ UNCHANGED supUnchanged

SupCloseDevnull ==
    /\ sup.pc = "close_devnull"
    /\ fds' = OsClose(fds, sup.devnull)
    /\ sup' = [sup EXCEPT !.pc = "idle"]
    /\ UNCHANGED supUnchanged

NextStderr ==
    \/ SupDup
    \/ SupOpen
    \/ SupRedirect
    \/ SupBlockEnds
    \/ SupRestore
    \/ SupCloseSaved
    \/ SupCloseDevnull

SpecStderr == InitStderr /\ [][NextStderr]_vars

(***************************************************************************)
(* A client that calls _extract_audio_from_video() on its own, in an       *)
(* environment where removing the audio file may fail as well.             *)
(***************************************************************************)
RemoveOutcomes == {"ok", "fail"}

extUnchanged ==
    <<pc, stop_ret, run, prev, api_key_env, video_file_path, outDir, files,
      fs0, spinning, spinner_thread, threads, current_index,
      transcription_text, calls, outcome, exc, fds, sup, names>>

InitExtract ==
    /\ pc = "x_client"
    /\ video_file_path \in VideoPaths
    /\ video_kind \in VideoKinds
    /\ tempAudio \in {"absent", "stale"}
    /\ ext = [pc |-> "call", handle |-> "none", result |-> "none", calls |-> 1]
    /\ Unused
    /\ fs0 = FS
    /\ stdout = <<>>
    /\ fds = StandardFds
    /\ sup = NoSup
    /\ names = NoNames

ExtOpen ==
    /\ ext.pc = "call"
    /\ stdout' = Append(stdout, "extracting")
    /\ IF video_kind = "unreadable"
       THEN ext' = [ext EXCEPT !.pc = "handler"]
       ELSE ext' = [ext EXCEPT !.pc = "write", !.handle = "open"]
    /\ UNCHANGED <<video_kind, tempAudio>>
    /\ UNCHANGED extUnchanged

ExtWrite ==
    /\ ext.pc = "write"
    /\ IF video_kind = "noaudio"
       THEN /\ ext' = [ext EXCEPT !.pc = "handler", !.handle = "closed"]
            /\ UNCHANGED <<tempAudio, stdout>>
       ELSE \E enc \in EncodeOutcomes :
            /\ tempAudio' = WriteAudiofile(tempAudio, enc)
            /\ IF enc = "ok"
               THEN /\ stdout' = Append(stdout, "extracted")
                    /\ ext' = [ext EXCEPT !.pc = "done", !.handle = "closed",
                                          !.result = "True"]
               ELSE /\ stdout' = stdout
                    /\ ext' = [ext EXCEPT !.pc = "handler", !.handle = "closed"]
    /\ UNCHANGED video_kind
    /\ UNCHANGED extUnchanged

ExtHandler ==
    /\ ext.pc = "handler"
    /\ IF Exists(tempAudio)
       THEN \E rm \in RemoveOutcomes :
            IF rm = "ok"
            THEN /\ tempAudio' = ExtractFailureCleanup(tempAudio)
                 /\ stdout' = stdout \o <<"err_extraction", "cleaned_up">>
                 /\ ext' = [ext EXCEPT !.pc = "done", !.result = "False"]
            ELSE /\ tempAudio' = tempAudio
                 /\ stdout' = Append(stdout, "err_extraction")
                 /\ ext' = [ext EXCEPT !.pc = "done", !.result = "raised"]
       ELSE /\ tempAudio' = tempAudio
            /\ stdout' = Append(stdout, "err_extraction")
            /\ ext' = [ext EXCEPT !.pc = "done", !.result = "False"]
    /\ UNCHANGED video_kind
    /\ UNCHANGED extUnchanged

ExtAgain ==
    /\ ext.pc = "done"
    /\ ext.calls < MaxExtractCalls
    /\ video_kind' \in VideoKinds
    /\ ext' = [pc |-> "call", handle |-> "none", result |-> "none",
               calls |-> ext.calls + 1]
    /\ stdout' = <<>>
    /\ UNCHANGED tempAudio
    /\ UNCHANGED extUnchanged

NextExtract ==
    \/ ExtOpen
    \/ ExtWrite
    \/ ExtHandler
    \/ ExtAgain

SpecExtract == InitExtract /\ [][NextExtract]_vars

(***************************************************************************)
(* Properties                                                              *)
(***************************************************************************)
Returned == pc = "returned"

IsFinalizer(x) == x \in {"stop", "stop_ret", "cleanup"}

Finalizers == SelectSeq(calls, IsFinalizer)

FilesUntouched == files = fs0.files /\ outDir = fs0.dir

ErrorMessages == {"err_key_not_set", "err_configuring", "err_extraction",
                  "err_transcription"}

PipelineMessages == ErrorMessages \cup
    {"hint_export", "loading", "extracting", "extracted", "cleaned_up",
     "sending", "received", "saving", "saved", "deleted"}

Printed(m) == \E i \in DOMAIN stdout : stdout[i] = m

\* C1 (as stated): whenever the pipeline has returned, on whatever exit
\* path, the intermediate audio file does not exist on disk.
C1_AudioGoneOnEveryExit == Returned => tempAudio = "absent"

\* C1 (amended): whenever the pipeline has returned on a path where the
\* credential check passed, the intermediate audio file does not exist; on a
\* credential failure the file is exactly as it was before the run.
C1_AudioGoneAfterCredentialCheck ==
    Returned => IF outcome = "cred_fail" THEN tempAudio = fs0.temp
                ELSE tempAudio = "absent"

C1_Witness ==
    /\ Returned
    /\ outcome = "persist_fail"
    /\ fs0.temp = "stale"
    /\ Printed("deleted")

\* C2 (as stated): on every exit path the pipeline has executed spinner stop
\* exactly once and then cleanup exactly once by the time it returns.
C2_StopThenCleanupOnEveryExit ==
    Returned => Finalizers = <<"stop", "stop_ret", "cleanup">>

\* C2 (amended): on every exit path that follows a successful extraction,
\* spinner stop and then cleanup have each been executed exactly once when
\* the pipeline returns; on a credential or extraction failure, neither.
C2_StopThenCleanupAfterExtraction ==
    Returned => IF outcome \in {"cred_fail", "extract_fail"}
                THEN Finalizers = <<>>
                ELSE Finalizers = <<"stop", "stop_ret", "cleanup">>

C2_Witness ==
    /\ Returned
    /\ outcome = "transcribe_fail"
    /\ Count(calls, "join") = 1
    /\ FrameCount(stdout) > 0

\* C3: once the service call has failed after a successful extraction, no
\* write of the output file is attempted and nothing under the output
\* directory is created or changed, and when the pipeline returns the
\* intermediate audio file is gone.
C3_ServiceFailureLeavesNoOutput ==
    outcome = "transcribe_fail" =>
        /\ Count(calls, "open_out") = 0
        /\ Count(calls, "makedirs") = 0
        /\ FilesUntouched
        /\ Returned => tempAudio = "absent"

C3_Witness ==
    /\ Returned
    /\ outcome = "transcribe_fail"
    /\ Count(calls, "request") = 1
    /\ Printed("extracted")
    /\ Printed("deleted")

C5_MissingKeyTouchesNothing ==
    api_key_env \in {None, ""} =>
        /\ FS = fs0
        /\ threads = <<>>
        /\ calls = <<>>
        /\ pc \in {"start", "returned"}
        /\ Returned => stdout = <<"err_key_not_set", "hint_export">>

C5_Witness ==
    /\ Returned
    /\ api_key_env = ""
    /\ fs0.temp = "stale"
    /\ fs0.dir = "dir"
    /\ Printed("hint_export")

StopHasReturned ==
    /\ pc = "h_idle"
    /\ calls # <<>>
    /\ Last(calls) = "stop_ret"

C7_NoFrameAfterStop ==
    [][(StopHasReturned /\ Count(calls, "start") = 1)
        => FrameCount(stdout') = FrameCount(stdout)]_vars

C7_Witness ==
    /\ StopHasReturned
    /\ calls = <<"start", "stop", "join", "stop_ret">>
    /\ FrameCount(stdout) > 0
    /\ Last(stdout) = "clear"

\* C8 (as stated): stop() on a spinner whose start() was never called does
\* not raise, joins no thread, leaves the spinner as constructed and has no
\* observable effect (nothing is written to stdout).
C8_StopBeforeStartNoEffect ==
    Count(calls, "start") = 0 =>
        /\ SpinnerConstructed
        /\ threads = <<>>
        /\ Count(calls, "join") = 0
        /\ pc = "stop_join" => ENABLED StopJoin
        /\ stdout = <<>>

\* C8 (amended): stop() on a spinner whose start() was never called does not
\* raise or block, joins no thread and leaves the spinner as constructed; its
\* one effect is the line-clearing write to stdout, once per call.
C8_StopBeforeStartOnlyClears ==
    Count(calls, "start") = 0 =>
        /\ SpinnerConstructed
        /\ threads = <<>>
        /\ Count(calls, "join") = 0
        /\ pc = "stop_join" => ENABLED StopJoin
        /\ stdout = [i \in 1..Count(calls, "stop_ret") |-> "clear"]

C8_Witness ==
    /\ Count(calls, "start") = 0
    /\ pc = "h_idle"
    /\ Count(calls, "stop_ret") = 2

\* C9 (as stated): the spinner is started before the transcription request
\* is sent, and the main thread prints no status or error message while a
\* spinner thread is still alive.
C9_NoMessageWhileSpinning ==
    /\ [](Before(calls, "start", "request"))
    /\ [][(Len(stdout') > Len(stdout) /\ Last(stdout') \in PipelineMessages)
           => ~Alive(threads)]_vars

\* C10 (as stated): every failure path has printed an explanation and has
\* created or modified no output file by the time the run ends.
C10_FailureLeavesNoTranscript ==
    (Returned /\ outcome \in {"cred_fail", "extract_fail", "transcribe_fail",
                              "persist_fail"}) =>
        /\ \E m \in ErrorMessages : Printed(m)
        /\ files = fs0.files

\* C11: when a run follows a successful run on the same input, the earlier
\* transcript is already at the path this run derives, the output directory
\* is not created again, and a run that gets through every stage has replaced
\* that file's content by its own transcript, adding no other file and
\* leaving no intermediate audio file.
SecondRunOnSameInput ==
    /\ run > 1
    /\ prev # NoPrev
    /\ prev.path = video_file_path
    /\ video_kind = "ok"

C11_RerunOverwrites ==
    SecondRunOnSameInput =>
        LET stem == IF video_file_path = <<"b", ".", "t", ".", "m">>
                    THEN <<"b", ".", "t">> ELSE <<"a">>
            path == OUTPUT_DIR \o <<"/">> \o stem \o TRANSCRIPTION_FILE_SUFFIX
        IN  /\ fs0.dir = "dir"
            /\ path \in DOMAIN fs0.files
            /\ fs0.files[path] = prev.text
            /\ Count(calls, "makedirs") = 0
            /\ outcome = "persist_fail" => Count(calls, "open_out") = 1
            /\ (Returned /\ outcome = "success") =>
                  /\ DOMAIN files = DOMAIN fs0.files
                  /\ files[path] = transcription_text
                  /\ \A p \in DOMAIN files : p # path => files[p] = fs0.files[p]
                  /\ tempAudio = "absent"

C11_Witness ==
    /\ SecondRunOnSameInput
    /\ Returned
    /\ outcome = "success"
    /\ prev.text = "t1"
    /\ transcription_text = "t2"
    /\ Cardinality(DOMAIN files) = 1

\* C13 (as stated): at most one spinner thread exists in a run, and no
\* spinner thread is alive once the Persist stage has begun or when Cleanup
\* runs.
C13_SpinnerStoppedBeforePersist ==
    /\ Len(threads) <= 1
    /\ pc \in {"save_dir", "save_open", "save_write", "cleanup"}
         => ~Alive(threads)

\* C15: the output file is opened only when the output directory exists, and
\* when the directory was absent at the start of the run it was created
\* before the open was attempted.
C15_DirectoryBeforeWrite ==
    /\ pc = "save_write" => outDir = "dir"
    /\ Count(calls, "open_out") > 0 =>
          /\ outDir = "dir"
          /\ fs0.dir = "absent" => Before(calls, "makedirs", "open_out")

C15_Witness ==
    /\ fs0.dir = "absent"
    /\ pc = "save_write"
    /\ calls = <<"configure", "start", "request", "makedirs", "open_out">>

\* C18: in one run the service client is configured at most once, at most
\* one transcription request is sent, and a request is sent only after the
\* configuration succeeded and the audio was extracted.
C18_OneRequestAfterSetup ==
    /\ Count(calls, "configure") <= 1
    /\ Count(calls, "request") <= 1
    /\ Count(calls, "request") = 1 =>
          /\ Before(calls, "configure", "request")
          /\ ~Printed("err_configuring")
          /\ Printed("extracted")
          /\ Before(stdout, "extracted", "sending")

C18_Witness ==
    /\ Returned
    /\ outcome = "transcribe_fail"
    /\ Count(calls, "request") = 1
    /\ Count(calls, "configure") = 1

\* C19: an exception raised by the transcription stage or the persistence
\* stage never leaves transcribe_video_with_gemini: the pipeline prints the
\* error message, then stops the spinner, then runs cleanup, and returns
\* normally with no exception in flight.
C19_StageExceptionsAreCaught ==
    outcome \in {"transcribe_fail", "persist_fail"} =>
        /\ pc # "propagated"
        /\ pc \in {"finally", "stop_flag", "stop_join", "stop_clear",
                   "cleanup", "returned"} =>
              /\ exc = "none"
              /\ Count(stdout, "err_transcription") = 1
        /\ Returned =>
              /\ Finalizers = <<"stop", "stop_ret", "cleanup">>
              /\ Before(stdout, "err_transcription", "clear")

C19_Witness ==
    /\ Returned
    /\ outcome = "transcribe_fail"
    /\ exc = "none"
    /\ Last(stdout) = "deleted"
    /\ Printed("err_transcription")

\* C12: for two paths that end in the same basename under any two
\* directories, _generate_output_filename returns one and the same path, and
\* that path is OUTPUT_DIR joined with the basename minus its last extension
\* followed by _gemini_transcription.txt.
StripLastExtension(b) ==
    LET dots == {i \in DOMAIN b :
                    b[i] = "." /\ \E k \in 1..(i - 1) : b[k] # "."}
    IN  IF dots = {} THEN b
        ELSE SubSeq(b, 1, (CHOOSE i \in dots : \A j \in dots : j <= i) - 1)

C12_NameDependsOnBasenameOnly ==
    names.out # <<>> =>
        /\ names.out[1] = names.out[2]
        /\ names.out[1] = OUTPUT_DIR \o <<"/">> \o StripLastExtension(names.base)
                          \o TRANSCRIPTION_FILE_SUFFIX

C12_Witness ==
    /\ names.out # <<>>
    /\ names.base = <<"a", ".", "a">>
    /\ names.paths = << <<"a", ".", "a">>, <<".", "v", "/", "a", ".", "a">> >>
    /\ names.out[2] = OUTPUT_DIR \o <<"/", "a">> \o TRANSCRIPTION_FILE_SUFFIX

\* C14: after any number of uses of suppress_stderr, whether the guarded
\* blocks returned or raised, every descriptor refers to what it referred to
\* before the first use (stderr to its original target, nothing left open);
\* while a guarded block runs, stderr refers to the discard sink and the
\* original target is kept open under the saved descriptor.
C14_StderrRestoredNoLeak ==
    /\ sup.pc = "idle" => fds = sup.orig
    /\ sup.pc = "block" =>
          /\ fds[STDERR_FILENO] = "devnull"
          /\ fds[sup.saved] = sup.orig[STDERR_FILENO]
          /\ sup.orig[sup.saved] = "closed"
          /\ sup.orig[sup.devnull] = "closed"

C14_Witness ==
    /\ sup.pc = "idle"
    /\ sup.uses = 2
    /\ sup.pending = "raise"
    /\ sup.orig[3] = "other"
    /\ sup.orig[STDERR_FILENO] = "log"

\* C17 (as stated): _extract_audio_from_video always returns a value and
\* never raises: False after any failure of opening, decoding, encoding or
\* of the removal of the partial file, True only when the audio file was
\* written in full; the container handle is not left open when it returns.
C17_ExtractNeverRaises ==
    ext.pc = "done" =>
        /\ ext.result \in {"True", "False"}
        /\ ext.result = "True" => tempAudio = "full"
        /\ ext.handle # "open"

\* C16: when the spinner thread is scheduled fairly, every stop() called
\* after start() returns; when it has returned the thread it joined has
\* terminated; and once the flag is cleared a thread at the loop test leaves
\* the loop instead of starting another iteration.
C16_StopReturnsThreadTerminated ==
    /\ (pc = "stop_flag" /\ spinner_thread # 0) ~> (pc = "h_idle")
    /\ []((StopHasReturned /\ spinner_thread # 0)
             => threads[spinner_thread] = "dead")
    /\ [][\A i \in DOMAIN threads :
             (~spinning /\ threads[i] = "check")
                => threads'[i] \in {"check", "dead"}]_vars

C16_Witness ==
    /\ StopHasReturned
    /\ spinner_thread = 1
    /\ threads = <<"dead">>
    /\ stdout = <<"frame", "clear">>

\* C20 (as stated): whatever the sequence of start() and stop() calls on one
\* spinner, once a stop() has returned no thread the spinner started is
\* alive, and no frame is written until the next start().
C20_NoThreadSurvivesStop ==
    /\ [](StopHasReturned => ~Alive(threads))
    /\ [][StopHasReturned => FrameCount(stdout') = FrameCount(stdout)]_vars

====
